---- MODULE Spec2Model ----
(***************************************************************************)
(* The DecisionCoach component of src/pages/Index.tsx as a state machine.  *)
(* The React state cells are the variables; every event handler, timer     *)
(* callback and promise continuation is one action, and each action ends   *)
(* with the effect passes (useEffect) that React runs after the handler's  *)
(* state updates are committed.                                           *)
(***************************************************************************)
EXTENDS Integers, Sequences, FiniteSets, TLC

\* ------------------------------------------------------------------ bounds
\* Most delayed callbacks (setTimeout) that may be outstanding at once.
MaxPending == 1
\* Math.floor(Date.now() / 1000) is drawn from 0..MaxTimestamp.
MaxTimestamp == 1
\* Math.floor(Math.random() * 16) is drawn from 0..MaxDigit.
MaxDigit == 1

\* ------------------------------------------------------- program constants
InitialConfidence == 65
InitialTime == 30
TxHashLength == 64
SliderMin == 0
SliderMax == 100
DigestLength == 64

NULL == "null"
Directions == {"UP", "DOWN"}
\* Positions the user asks of the slider, two of them beyond its ends.
ConfidenceInputs == {SliderMin - 1, SliderMin, SliderMax, SliderMax + 1}
Timestamps == 0..MaxTimestamp
RandomDigits == 0..MaxDigit

\* mockAIAnalysis: the fields the component logic reads.
mockAIAnalysis == [direction |-> "UP", confidence |-> 78]

\* The empty string of useState<string>('').
EmptyString == ""
\* The empty string in commitmentHash and txHash, whose other values are
\* digests and digit strings, modelled as tuples.
NoHash == <<>>
\* The timestamp slot of a digest before Date.now() is drawn for it.
Unstamped == -1
\* '0x' + '0'.repeat(64): the digest of the catch branch.
ZeroDigest == [i \in 1..DigestLength |-> 0]

\* coachResponses: the four feedback payloads, by key.
coachResponses ==
  [k \in {"agree_correct", "agree_incorrect", "disagree_correct", "disagree_incorrect"} |->
     CASE k = "agree_correct" ->
            [feedback |-> "Your reasoning aligned with the analysis, and the outcome confirmed it. This is a good sign your pattern recognition is developing well. Stay curious about what signals felt most reliable to you.",
             patternInsight |-> "When you trust your read and it matches the data, you're building calibrated confidence.",
             nextSuggestion |-> "Next time, notice which specific signal gave you the most conviction."]
       [] k = "agree_incorrect" ->
            [feedback |-> "You aligned with the analysis, but the outcome went the other way. This happens - markets are probabilistic, not deterministic. The goal isn't to be right every time, but to learn from each decision.",
             patternInsight |-> "Incorrect outcomes when following data are normal. What matters is your process was sound.",
             nextSuggestion |-> "Reflect on whether any signal felt uncertain. Trust that discomfort next time."]
       [] k = "disagree_correct" ->
            [feedback |-> "You went against the analysis and were right. This shows independent thinking and perhaps pattern recognition the model missed. That's valuable - but also rare. Consider what you saw that the data didn't capture.",
             patternInsight |-> "Contrarian calls that work out often come from noticing something others overlooked.",
             nextSuggestion |-> "Document what gave you conviction to disagree. This insight could be your edge."]
       [] k = "disagree_incorrect" ->
            [feedback |-> "You disagreed with the analysis, and the outcome didn't favor your call. That's okay - learning to calibrate when to trust your instincts versus the data is part of the training. Each decision teaches you something.",
             patternInsight |-> "Disagreeing with data isn't wrong, but it requires strong conviction backed by observation.",
             nextSuggestion |-> "Ask yourself: what made you doubt the analysis? Was it pattern or impulse?"]]

\* The null that getCoachFeedback returns.
NoFeedback == [null |-> TRUE]

VARIABLES
  demoMode, walletConnected, walletAddress,
  userDirection, userConfidence, isLocked,
  timeRemaining, timerActive, showTimeWarning,
  outcome, showOutcome,
  commitmentHash, txStatus, txHash,
  timer,          \* TRUE while the setInterval of the timer effect is registered
  pendingReveal,  \* setTimeout(..., 800) callbacks of handleLockIn not yet run
  pendingDemoTx,  \* handleCommitProof continuations awaiting with demoMode = true
  pendingLiveTx   \* handleCommitProof continuations awaiting with demoMode = false

vars == <<demoMode, walletConnected, walletAddress, userDirection, userConfidence,
          isLocked, timeRemaining, timerActive, showTimeWarning, outcome,
          showOutcome, commitmentHash, txStatus, txHash, timer, pendingReveal,
          pendingDemoTx, pendingLiveTx>>

\* The component's state as one record: what a render closes over.
Cur ==
  [demoMode |-> demoMode, walletConnected |-> walletConnected,
   walletAddress |-> walletAddress, userDirection |-> userDirection,
   userConfidence |-> userConfidence, isLocked |-> isLocked,
   timeRemaining |-> timeRemaining, timerActive |-> timerActive,
   showTimeWarning |-> showTimeWarning, outcome |-> outcome,
   showOutcome |-> showOutcome, commitmentHash |-> commitmentHash,
   txStatus |-> txStatus, txHash |-> txHash, timer |-> timer,
   pendingReveal |-> pendingReveal, pendingDemoTx |-> pendingDemoTx,
   pendingLiveTx |-> pendingLiveTx]

\* ------------------------------------------------------------ handlers
\* handleLockIn without its early return.
handleLockIn_unguarded(s) ==
  [s EXCEPT !.isLocked = TRUE, !.timerActive = FALSE, !.pendingReveal = @ + 1]

\* handleLockIn that never schedules the reveal.
handleLockIn_noReveal(s) ==
  IF s.userDirection = NULL THEN s
  ELSE [s EXCEPT !.isLocked = TRUE, !.timerActive = FALSE]

\* handleLockIn without setTimerActive(false).
handleLockIn_keepTimer(s) ==
  IF s.userDirection = NULL THEN s
  ELSE [s EXCEPT !.isLocked = TRUE, !.pendingReveal = @ + 1]

\* const handleLockIn = () => { if (!userDirection) return; ... }
handleLockIn(s) ==
  IF s.userDirection = NULL THEN s
  ELSE [s EXCEPT !.isLocked = TRUE, !.timerActive = FALSE,
                 !.pendingReveal = @ + 1]

\* computeCommitment whose catch branch returns the empty string.
computeCommitment_emptyFallback(s, timestamp) ==
  LET address == IF s.demoMode THEN "0xDemoUser"
                 ELSE IF s.walletAddress # EmptyString THEN s.walletAddress
                      ELSE "0x0"
      direction == IF s.userDirection = NULL THEN "NONE" ELSE s.userDirection
  IN IF s.userConfidence >= 0
     THEN <<address, mockAIAnalysis.direction, mockAIAnalysis.confidence,
            direction, s.userConfidence, s.outcome, timestamp>>
     ELSE NoHash

\* computeCommitment: keccak256(encodePacked(...)) is modelled by the tuple
\* of its inputs (distinct inputs, distinct digests); BigInt/uint256
\* encoding throws on a value that is not an unsigned integer.
computeCommitment(s, timestamp) ==
  LET address == IF s.demoMode THEN "0xDemoUser"
                 ELSE IF s.walletAddress # EmptyString THEN s.walletAddress
                      ELSE "0x0"
      direction == IF s.userDirection = NULL THEN "NONE" ELSE s.userDirection
  IN IF s.userConfidence >= 0
     THEN <<address, mockAIAnalysis.direction, mockAIAnalysis.confidence,
            direction, s.userConfidence, s.outcome, timestamp>>
     ELSE ZeroDigest

\* The timer effect calling handleLockIn at 0 whether or not a direction is set.
TimerEffect_alwaysLock(s) ==
  IF ~s.timerActive \/ s.isLocked THEN [s EXCEPT !.timer = FALSE]
  ELSE IF s.timeRemaining <= 0 THEN handleLockIn([s EXCEPT !.timer = FALSE])
       ELSE [s EXCEPT !.timer = TRUE]

\* The timer effect taking the warning branch at 0 even with a direction set.
TimerEffect_neverLock(s) ==
  IF ~s.timerActive \/ s.isLocked THEN [s EXCEPT !.timer = FALSE]
  ELSE IF s.timeRemaining <= 0
       THEN [s EXCEPT !.showTimeWarning = TRUE, !.timerActive = FALSE,
                      !.timer = FALSE]
       ELSE [s EXCEPT !.timer = TRUE]

\* The timer effect without its first early return.
TimerEffect_noGuard(s) ==
  IF s.timeRemaining <= 0
  THEN IF s.userDirection # NULL
       THEN handleLockIn([s EXCEPT !.timer = FALSE])
       ELSE [s EXCEPT !.showTimeWarning = TRUE, !.timerActive = FALSE,
                      !.timer = FALSE]
  ELSE [s EXCEPT !.timer = TRUE]

\* The timer effect whose early return tests isLocked alone.
TimerEffect_testsLockOnly(s) ==
  IF s.isLocked THEN [s EXCEPT !.timer = FALSE]
  ELSE IF s.timeRemaining <= 0
       THEN IF s.userDirection # NULL
            THEN handleLockIn([s EXCEPT !.timer = FALSE])
            ELSE [s EXCEPT !.showTimeWarning = TRUE, !.timerActive = FALSE,
                           !.timer = FALSE]
       ELSE [s EXCEPT !.timer = s.timerActive]

\* The timer effect treating 0 as time still left.
TimerEffect_expiresBelowZero(s) ==
  IF ~s.timerActive \/ s.isLocked THEN [s EXCEPT !.timer = FALSE]
  ELSE IF s.timeRemaining < 0
       THEN IF s.userDirection # NULL
            THEN handleLockIn([s EXCEPT !.timer = FALSE])
            ELSE [s EXCEPT !.showTimeWarning = TRUE, !.timerActive = FALSE,
                           !.timer = FALSE]
       ELSE [s EXCEPT !.timer = TRUE]

\* The timer useEffect body, run against the render snapshot s.  The cleanup
\* of the previous run has cleared the interval before the body runs.
TimerEffect(s) ==
  IF ~s.timerActive \/ s.isLocked THEN [s EXCEPT !.timer = FALSE]
  ELSE IF s.timeRemaining <= 0
       THEN IF s.userDirection # NULL
            THEN handleLockIn([s EXCEPT !.timer = FALSE])
            ELSE [s EXCEPT !.showTimeWarning = TRUE, !.timerActive = FALSE,
                           !.timer = FALSE]
       ELSE [s EXCEPT !.timer = TRUE]

\* Dependency arrays of the two effects.
TimerDeps(s) == <<s.timeRemaining, s.timerActive, s.isLocked, s.userDirection>>

\* The commitment dependencies without the outcome.
CommitmentDeps_noOutcome(s) ==
  <<s.isLocked, s.showOutcome,
    s.demoMode, s.walletAddress, s.userDirection, s.userConfidence>>

\* [isLocked, showOutcome, computeCommitment], the callback's own
\* dependencies standing for its identity.
CommitmentDeps(s) ==
  <<s.isLocked, s.showOutcome,
    s.demoMode, s.walletAddress, s.userDirection, s.userConfidence, s.outcome>>

\* The commitment effect testing showOutcome alone.
CommitmentEffect_noLockCheck(s, timestamp) ==
  IF s.showOutcome
  THEN [s EXCEPT !.commitmentHash = computeCommitment(s, timestamp)]
  ELSE s

\* The commitment useEffect body.
CommitmentEffect(s, timestamp) ==
  IF s.isLocked /\ s.showOutcome
  THEN [s EXCEPT !.commitmentHash = computeCommitment(s, timestamp)]
  ELSE s

\* One commit of a render: the effects whose dependencies differ from the
\* previous render run against the new snapshot; their updates are batched.
EffectsPass(prev, cur, timestamp) ==
  LET t == IF TimerDeps(prev) # TimerDeps(cur) THEN TimerEffect(cur) ELSE cur
      c == IF CommitmentDeps(prev) # CommitmentDeps(cur)
           THEN CommitmentEffect(cur, timestamp) ELSE cur
  IN [t EXCEPT !.commitmentHash = c.commitmentHash]

\* Renders and effect passes until no effect changes the state.
RECURSIVE Settle(_, _, _)
Settle(prev, cur, timestamp) ==
  LET next == EffectsPass(prev, cur, timestamp)
  IN IF next = cur THEN cur ELSE Settle(cur, next, timestamp)

\* The next state is the settled record n.
Commit(n) ==
  /\ n.pendingReveal <= MaxPending
  /\ n.pendingDemoTx + n.pendingLiveTx <= MaxPending
  /\ demoMode' = n.demoMode
  /\ walletConnected' = n.walletConnected
  /\ walletAddress' = n.walletAddress
  /\ userDirection' = n.userDirection
  /\ userConfidence' = n.userConfidence
  /\ isLocked' = n.isLocked
  /\ timeRemaining' = n.timeRemaining
  /\ timerActive' = n.timerActive
  /\ showTimeWarning' = n.showTimeWarning
  /\ outcome' = n.outcome
  /\ showOutcome' = n.showOutcome
  /\ commitmentHash' = n.commitmentHash
  /\ txStatus' = n.txStatus
  /\ txHash' = n.txHash
  /\ timer' = n.timer
  /\ pendingReveal' = n.pendingReveal
  /\ pendingDemoTx' = n.pendingDemoTx
  /\ pendingLiveTx' = n.pendingLiveTx

\* TRUE iff the settled record n holds a digest computed in this step, its
\* timestamp not yet drawn.
Unread(n) ==
  /\ Len(n.commitmentHash) = 7
  /\ n.commitmentHash[7] = Unstamped

\* One operation: the handler's result h, then the effects, then the commit.
\* Date.now() is drawn only where computeCommitment has run.
Step(h) ==
  \E n \in {Settle(Cur, h, Unstamped)} :
    IF Unread(n)
    THEN \E timestamp \in Timestamps :
           Commit([n EXCEPT !.commitmentHash[7] = timestamp])
    ELSE Commit(n)

\* resetDemo that leaves the submission fields alone.
resetDemo_keepTx(s) ==
  [s EXCEPT !.userDirection = NULL, !.userConfidence = InitialConfidence,
            !.isLocked = FALSE, !.timeRemaining = InitialTime,
            !.timerActive = TRUE, !.showTimeWarning = FALSE,
            !.showOutcome = FALSE, !.commitmentHash = NoHash]

\* resetDemo clearing the scheduled reveal as well.
resetDemo_cancelReveal(s) ==
  [s EXCEPT !.userDirection = NULL, !.userConfidence = InitialConfidence,
            !.isLocked = FALSE, !.timeRemaining = InitialTime,
            !.timerActive = TRUE, !.showTimeWarning = FALSE,
            !.showOutcome = FALSE, !.commitmentHash = NoHash,
            !.txStatus = "idle", !.txHash = NoHash, !.pendingReveal = 0]

\* resetDemo without setTxStatus('idle').
resetDemo_keepStatus(s) ==
  [s EXCEPT !.userDirection = NULL, !.userConfidence = InitialConfidence,
            !.isLocked = FALSE, !.timeRemaining = InitialTime,
            !.timerActive = TRUE, !.showTimeWarning = FALSE,
            !.showOutcome = FALSE, !.commitmentHash = NoHash,
            !.txHash = NoHash]

\* const resetDemo = () => { ... }
resetDemo(s) ==
  [s EXCEPT !.userDirection = NULL, !.userConfidence = InitialConfidence,
            !.isLocked = FALSE, !.timeRemaining = InitialTime,
            !.timerActive = TRUE, !.showTimeWarning = FALSE,
            !.showOutcome = FALSE, !.commitmentHash = NoHash,
            !.txStatus = "idle", !.txHash = NoHash]

\* The direction button without the !isLocked test.
chooseDirection_unguarded(s, d) == [s EXCEPT !.userDirection = d]

\* onClick={() => !isLocked && setUserDirection(d)}
chooseDirection(s, d) ==
  IF ~s.isLocked THEN [s EXCEPT !.userDirection = d] ELSE s

\* onChange={(e) => !isLocked && setUserConfidence(Number(e.target.value))}
\* A range input that reports whatever position is asked of it.
rangeValue_unclamped(v) == v

\* <input type="range" min="0" max="100">: the value the element reports
\* lies between its min and max.
rangeValue(v) ==
  IF v < SliderMin THEN SliderMin ELSE IF v > SliderMax THEN SliderMax ELSE v

setConfidence(s, v) ==
  IF ~s.isLocked THEN [s EXCEPT !.userConfidence = v] ELSE s

\* const handleRandomizeOutcome = () => setOutcome(prev => ...)
handleRandomizeOutcome(s) ==
  [s EXCEPT !.outcome = IF @ = "UP" THEN "DOWN" ELSE "UP"]

\* const handleConnectWallet = () => { ... }
handleConnectWallet(s) ==
  [s EXCEPT !.demoMode = FALSE, !.walletConnected = TRUE,
            !.walletAddress = "0x1234...5678"]

\* The mode switch also releasing the lock.
toggleDemoMode_unlock(s) == [s EXCEPT !.demoMode = ~@, !.isLocked = FALSE]

\* onClick={() => setDemoMode(!demoMode)}
toggleDemoMode(s) == [s EXCEPT !.demoMode = ~@]

\* The commit button disabled on a missing commitment or wallet only.
CommitDisabled_noStatus(s) ==
  \/ s.commitmentHash = NoHash
  \/ (~s.demoMode /\ ~s.walletConnected)

\* disabled={...} of the commit button.
CommitDisabled(s) ==
  \/ s.commitmentHash = NoHash
  \/ s.txStatus = "pending"
  \/ s.txStatus = "confirmed"
  \/ (~s.demoMode /\ ~s.walletConnected)

\* handleCommitProof up to its await: the synchronous part of the handler.
handleCommitProof(s) ==
  IF s.commitmentHash = NoHash THEN s
  ELSE IF s.demoMode
       THEN [s EXCEPT !.txStatus = "pending", !.pendingDemoTx = @ + 1]
       ELSE [s EXCEPT !.txStatus = "pending", !.pendingLiveTx = @ + 1]

\* The click on the commit button: a disabled button dispatches no click.
submit(s) == IF CommitDisabled(s) THEN s ELSE handleCommitProof(s)

\* '0x' + Array.from({ length: 64 }, () => random hex digit).join('')
fakeTxHash(digit) == [i \in 1..TxHashLength |-> digit]

\* The demo continuation without setTxHash.
confirmDemoTx_noHash(s, digit) ==
  [s EXCEPT !.txStatus = "confirmed", !.pendingDemoTx = @ - 1]

\* handleCommitProof after its await, demo branch.
confirmDemoTx(s, digit) ==
  [s EXCEPT !.txHash = fakeTxHash(digit), !.txStatus = "confirmed",
            !.pendingDemoTx = @ - 1]

\* The live branch ending in its catch.
confirmLiveTx_fail(s) ==
  [s EXCEPT !.txStatus = "idle", !.pendingLiveTx = @ - 1]

\* handleCommitProof after its await, live branch: the awaited promise only
\* resolves, so the catch branch is never entered.
confirmLiveTx(s) ==
  [s EXCEPT !.txStatus = "confirmed", !.pendingLiveTx = @ - 1]

\* The catch branch leaving the status as it is.
catchLiveTx_noRevert(s) == [s EXCEPT !.pendingLiveTx = @ - 1]

\* catch { setTxStatus('idle'); }: what the live branch does if the awaited
\* call rejects.
catchLiveTx(s) ==
  [s EXCEPT !.txStatus = "idle", !.pendingLiveTx = @ - 1]

\* setTimeout(() => { setShowOutcome(true); }, 800)
revealOutcome(s) ==
  [s EXCEPT !.showOutcome = TRUE, !.pendingReveal = @ - 1]

\* setInterval(() => { setTimeRemaining((t) => t - 1); }, 1000)
tick(s) == [s EXCEPT !.timeRemaining = @ - 1]

\* getCoachFeedback with correctness judged against the analysis.
getCoachFeedback_swapped(s) ==
  IF ~s.showOutcome \/ s.userDirection = NULL THEN NoFeedback
  ELSE LET agreed == s.userDirection = mockAIAnalysis.direction
           correct == s.outcome = mockAIAnalysis.direction
       IN coachResponses[(IF agreed THEN "agree" ELSE "disagree") \o "_" \o
                         (IF correct THEN "correct" ELSE "incorrect")]

\* const getCoachFeedback = (): CoachResponse | null => { ... }
getCoachFeedback(s) ==
  IF ~s.showOutcome \/ s.userDirection = NULL THEN NoFeedback
  ELSE LET agreed == s.userDirection = mockAIAnalysis.direction
           correct == s.userDirection = s.outcome
       IN coachResponses[(IF agreed THEN "agree" ELSE "disagree") \o "_" \o
                         (IF correct THEN "correct" ELSE "incorrect")]

\* const feedback = getCoachFeedback();
feedback == getCoachFeedback(Cur)

\* ------------------------------------------------------------- actions
Init ==
  /\ demoMode = TRUE
  /\ walletConnected = FALSE
  /\ walletAddress = EmptyString
  /\ userDirection = NULL
  /\ userConfidence = InitialConfidence
  /\ isLocked = FALSE
  /\ timeRemaining = InitialTime
  /\ timerActive = TRUE
  /\ showTimeWarning = FALSE
  /\ outcome = "UP"
  /\ showOutcome = FALSE
  /\ commitmentHash = NoHash
  /\ txStatus = "idle"
  /\ txHash = NoHash
  /\ timer = TRUE
  /\ pendingReveal = 0
  /\ pendingDemoTx = 0
  /\ pendingLiveTx = 0

Tick ==
  /\ timer
  /\ Step(tick(Cur))

ChooseDirection ==
  \E d \in Directions :
    Step(chooseDirection(Cur, d))

SetConfidence ==
  \E v \in ConfidenceInputs :
    Step(setConfidence(Cur, rangeValue(v)))

\* The lock button is rendered only while !isLocked.
LockIn ==
  /\ ~isLocked
  /\ Step(handleLockIn(Cur))

\* The reset button is rendered only while isLocked.
Reset ==
  /\ isLocked
  /\ Step(resetDemo(Cur))

\* The toggle button rendered in the revealed-outcome panel in either mode.
ToggleOutcome_anyMode ==
  /\ showOutcome
  /\ Step(handleRandomizeOutcome(Cur))

\* The toggle button is rendered in the revealed-outcome panel, in demo mode.
ToggleOutcome ==
  /\ showOutcome
  /\ demoMode
  /\ Step(handleRandomizeOutcome(Cur))

ToggleDemoMode ==
  Step(toggleDemoMode(Cur))

ConnectWallet ==
  Step(handleConnectWallet(Cur))

Submit ==
  Step(submit(Cur))

RevealOutcome ==
  /\ pendingReveal > 0
  /\ Step(revealOutcome(Cur))

ConfirmDemoTx ==
  /\ pendingDemoTx > 0
  /\ \E digit \in RandomDigits :
       Step(confirmDemoTx(Cur, digit))

ConfirmLiveTx ==
  /\ pendingLiveTx > 0
  /\ Step(confirmLiveTx(Cur))

\* The awaited call of a live submission rejecting. The placeholder promise
\* of the source only resolves, so this step is no part of Next; it belongs
\* to LiveFailureSpec, where the call is one that can fail.
FailLiveTx ==
  /\ pendingLiveTx > 0
  /\ Step(catchLiveTx(Cur))

Next ==
  \/ Tick
  \/ ChooseDirection
  \/ SetConfidence
  \/ LockIn
  \/ Reset
  \/ ToggleOutcome
  \/ ToggleDemoMode
  \/ ConnectWallet
  \/ Submit
  \/ RevealOutcome
  \/ ConfirmDemoTx
  \/ ConfirmLiveTx

Spec == Init /\ [][Next]_vars

\* The 2000 ms timer behind the demo continuation always expires, so a
\* continuation that is waiting eventually runs.
FairSpec == Spec /\ WF_vars(ConfirmDemoTx)

\* The 800 ms timer behind the reveal callback always expires, so a reveal
\* that is scheduled eventually runs.
RevealFairSpec == Spec /\ WF_vars(RevealOutcome)

\* The component with a live submission call that may reject: every
\* behaviour of Spec, and those in which the try block throws.
LiveFailureSpec == Init /\ [][Next \/ FailLiveTx]_vars

\* ------------------------------------------- computeCommitment on its own
\* Confidence values handed to computeCommitment, one of them no unsigned
\* integer.
CommitmentConfidences == {SliderMin - 1, SliderMin, InitialConfidence, SliderMax}

\* The values computeCommitment closes over, drawn freely; the session is
\* locked and revealed, so that the commitment effect calls it.
CommitmentInit ==
  /\ demoMode \in BOOLEAN
  /\ walletConnected = FALSE
  /\ walletAddress \in {EmptyString, "0x1234...5678"}
  /\ userDirection \in Directions \cup {NULL}
  /\ userConfidence \in CommitmentConfidences
  /\ isLocked = TRUE
  /\ timeRemaining = InitialTime
  /\ timerActive = FALSE
  /\ showTimeWarning = FALSE
  /\ outcome \in Directions
  /\ showOutcome = TRUE
  /\ commitmentHash = NoHash
  /\ txStatus = "idle"
  /\ txHash = NoHash
  /\ timer = FALSE
  /\ pendingReveal = 0
  /\ pendingDemoTx = 0
  /\ pendingLiveTx = 0

\* The commitment effect running once: setCommitmentHash(computeCommitment()).
ComputeCommitment ==
  \E timestamp \in Timestamps :
    Commit(CommitmentEffect(Cur, timestamp))

CommitmentSpec == CommitmentInit /\ [][ComputeCommitment]_vars

\* A registered interval keeps firing every second, and a scheduled reveal
\* runs after its 800 ms (well before the countdown can end).
TickFairSpec == Spec /\ WF_vars(Tick) /\ WF_vars(RevealOutcome)

\* ---------------------------------------------------------------- claims

\* C1: every resetDemo step ends with direction unset, confidence 65, lock
\* false, timer at 30 and running, warning and outcome hidden, commitment
\* empty, submission idle and transaction hash empty, whatever came before.
ResetRestoresDefaults ==
  [][\/ /\ userDirection' = NULL
        /\ userConfidence' = 65
        /\ isLocked' = FALSE
        /\ timeRemaining' = 30
        /\ timerActive' = TRUE
        /\ showTimeWarning' = FALSE
        /\ showOutcome' = FALSE
        /\ commitmentHash' = NoHash
        /\ txStatus' = "idle"
        /\ txHash' = NoHash
     \/ ~Reset]_vars

\* A fresh session whose previous one was reset with a submission in flight.
ResetWitness ==
  /\ pendingDemoTx > 0
  /\ txStatus = "idle"
  /\ ~isLocked
  /\ userDirection = NULL
  /\ timeRemaining = InitialTime

\* C2: every step taken while locked keeps userDirection and userConfidence
\* (a direction click or a slider change among them), resetDemo excepted.
LockedDecisionFrozen ==
  [][isLocked =>
       (UNCHANGED <<userDirection, userConfidence>> \/ Reset)]_vars

\* A locked decision that differs from both button and slider defaults.
LockedDecisionWitness ==
  /\ isLocked
  /\ userDirection = "DOWN"
  /\ userConfidence = SliderMax

\* C3: handleLockIn invoked with no direction chosen changes no variable
\* and schedules no reveal callback.
LockInWithoutDirectionIsNoOp ==
  [][userDirection = NULL => (UNCHANGED vars \/ ~LockIn)]_vars

\* The lock button pressed (to no effect) after some of the countdown.
LockInWithoutDirectionWitness ==
  /\ userDirection = NULL
  /\ ~isLocked
  /\ timerActive
  /\ timeRemaining < InitialTime

\* C4 as stated: each lock schedules exactly one reveal callback and the
\* outcome goes from hidden to shown exactly once after the lock: hidden at
\* the lock, never hidden again while locked, shown once no callback is left.
RevealExactlyOnceAfterLock ==
  [][/\ (~isLocked /\ isLocked') =>
          (~showOutcome' /\ pendingReveal' = pendingReveal + 1)
     /\ (isLocked /\ isLocked') =>
          (pendingReveal' <= pendingReveal /\ (showOutcome => showOutcome'))
     /\ (isLocked' /\ pendingReveal' = 0) => showOutcome']_vars

\* C4 amended: each lock schedules exactly one reveal callback, none is
\* scheduled while locked, and after the lock the outcome goes from hidden
\* to shown at most once: it never returns to hidden while locked and is
\* shown once no callback is left (it may already be shown at the lock).
RevealAtMostOnceAfterLock ==
  [][/\ (~isLocked /\ isLocked') => pendingReveal' = pendingReveal + 1
     /\ (isLocked /\ isLocked') =>
          (pendingReveal' <= pendingReveal /\ (showOutcome => showOutcome'))
     /\ (isLocked' /\ pendingReveal' = 0) => showOutcome']_vars

\* A lock taken while the outcome is already shown, its own callback pending.
RevealWitness ==
  /\ isLocked
  /\ showOutcome
  /\ pendingReveal > 0

\* C5: the tick that brings the countdown to 0 with no direction chosen
\* sets the warning and stops the timer, without locking or scheduling.
ExpiryWithoutDirectionWarns ==
  [][(timeRemaining = 1 /\ userDirection = NULL /\ Tick) =>
       /\ timeRemaining' = 0
       /\ showTimeWarning'
       /\ ~timerActive'
       /\ ~isLocked'
       /\ pendingReveal' = pendingReveal]_vars

\* The countdown expired with nothing chosen.
ExpiryWithoutDirectionWitness ==
  /\ timeRemaining = 0
  /\ showTimeWarning
  /\ ~timerActive
  /\ ~isLocked
  /\ userDirection = NULL

\* C6: the tick that brings the countdown to 0 with a direction chosen
\* locks, stops the timer and schedules the reveal, with no lock click.
ExpiryWithDirectionLocks ==
  [][(timeRemaining = 1 /\ userDirection # NULL /\ Tick) =>
       /\ timeRemaining' = 0
       /\ isLocked'
       /\ ~timerActive'
       /\ ~showTimeWarning'
       /\ pendingReveal' = pendingReveal + 1]_vars

\* Locked at 0 with no warning ever shown: only the auto-lock gets here.
ExpiryWithDirectionWitness ==
  /\ timeRemaining = 0
  /\ isLocked
  /\ ~showTimeWarning
  /\ pendingReveal > 0

\* C7: once locked or stopped no interval is registered, and timeRemaining
\* keeps its value in every step but resetDemo.
CountdownStopsCleanly ==
  [][(isLocked \/ ~timerActive) =>
       /\ ~timer
       /\ timeRemaining' = timeRemaining \/ Reset]_vars

\* Locked in the middle of the countdown.
CountdownStoppedWitness ==
  /\ isLocked
  /\ ~timer
  /\ timeRemaining > 0
  /\ timeRemaining < InitialTime

\* C8: a non-empty commitmentHash implies isLocked and showOutcome.
CommitmentOnlyWhenLockedAndRevealed ==
  commitmentHash # NoHash => (isLocked /\ showOutcome)

\* A commitment computed in a session whose outcome a stale callback of the
\* previous session revealed before the lock.
CommitmentWitness ==
  /\ commitmentHash # NoHash
  /\ pendingReveal > 0

\* C9: the commit button pressed with no commitment, or with txStatus
\* pending or confirmed, changes no variable and schedules nothing.
SubmitNoOpUnlessIdleWithCommitment ==
  [][(commitmentHash = NoHash \/ txStatus # "idle") =>
       (UNCHANGED vars \/ ~Submit)]_vars

\* A commitment under submission: the button is pressed to no effect.
SubmitNoOpWitness ==
  /\ commitmentHash # NoHash
  /\ txStatus = "pending"
  /\ pendingDemoTx + pendingLiveTx > 0

\* C10 as stated: txStatus becomes pending only from idle, confirmed only
\* from pending, and idle only through resetDemo.
TxStatusOneWay ==
  [][/\ (txStatus' = "pending" /\ txStatus # "pending") => txStatus = "idle"
     /\ (txStatus' = "confirmed" /\ txStatus # "confirmed") =>
          txStatus = "pending"
     /\ (txStatus' = "idle" /\ txStatus # "idle") => Reset]_vars

\* C10 amended: txStatus becomes pending only from idle and by submit,
\* becomes confirmed only when the continuation of an earlier submit runs
\* (from pending, or from idle when resetDemo came in between), and becomes
\* idle only through resetDemo.
TxStatusOneWayUpToStaleConfirm ==
  [][/\ (txStatus' = "pending" /\ txStatus # "pending") =>
          (txStatus = "idle" /\ Submit)
     /\ (txStatus' = "confirmed" /\ txStatus # "confirmed") =>
          (txStatus \in {"pending", "idle"} /\ (ConfirmDemoTx \/ ConfirmLiveTx))
     /\ (txStatus' = "idle" /\ txStatus # "idle") => Reset]_vars

\* Confirmed in a session that was reset after the submit.
TxStatusWitness ==
  /\ txStatus = "confirmed"
  /\ ~isLocked
  /\ commitmentHash = NoHash

\* C11: in demo mode a press of the commit button from idle with a
\* commitment makes txStatus pending and starts one continuation; when a
\* continuation runs, txStatus is confirmed and txHash is a string of 64
\* hex digits; and every waiting continuation leads to confirmed.
DemoSubmitConfirms ==
  /\ [][(demoMode /\ txStatus = "idle" /\ commitmentHash # NoHash) =>
          \/ UNCHANGED vars
          \/ ~Submit
          \/ (txStatus' = "pending" /\ pendingDemoTx' = pendingDemoTx + 1)]_vars
  /\ [][pendingDemoTx' < pendingDemoTx =>
          /\ txStatus' = "confirmed"
          /\ Len(txHash') = 64
          /\ \A i \in 1..Len(txHash') : txHash'[i] \in 0..15]_vars
  /\ (pendingDemoTx > 0) ~> (txStatus = "confirmed" /\ txHash # NoHash)

\* A demo submission confirmed in the session that made it.
DemoSubmitWitness ==
  /\ txStatus = "confirmed"
  /\ Len(txHash) = TxHashLength
  /\ isLocked
  /\ demoMode
  /\ commitmentHash # NoHash

\* C12: the feedback is null while the outcome is hidden or no direction is
\* chosen; otherwise it is the payload keyed by whether userDirection equals
\* the analysis direction (agree) and the outcome (correct); the four
\* payloads are pairwise distinct.
FeedbackByAgreementAndCorrectness ==
  /\ (~showOutcome \/ userDirection = NULL) => feedback = NoFeedback
  /\ (showOutcome /\ userDirection # NULL) =>
       /\ (userDirection = mockAIAnalysis.direction /\ userDirection = outcome)
            => feedback = coachResponses["agree_correct"]
       /\ (userDirection = mockAIAnalysis.direction /\ userDirection # outcome)
            => feedback = coachResponses["agree_incorrect"]
       /\ (userDirection # mockAIAnalysis.direction /\ userDirection = outcome)
            => feedback = coachResponses["disagree_correct"]
       /\ (userDirection # mockAIAnalysis.direction /\ userDirection # outcome)
            => feedback = coachResponses["disagree_incorrect"]
  /\ \A j, k \in DOMAIN coachResponses :
       j # k => /\ coachResponses[j] # coachResponses[k]
                /\ coachResponses[j].feedback # coachResponses[k].feedback

\* Against the analysis and right: DOWN chosen, outcome toggled to DOWN.
FeedbackWitness ==
  /\ showOutcome
  /\ userDirection = "DOWN"
  /\ outcome = "DOWN"
  /\ feedback = coachResponses["disagree_correct"]

\* C13: for every confidence input, also one outside 0..100, setting the
\* confidence while unlocked stores the input clamped to [0,100]; so
\* userConfidence is within [0,100] in every reachable state.
ConfidenceClamped ==
  /\ userConfidence \in 0..100
  /\ ~isLocked =>
       \A v \in ConfidenceInputs :
         LET stored == setConfidence(Cur, rangeValue(v)).userConfidence
         IN /\ stored \in 0..100
            /\ v < 0 => stored = 0
            /\ v > 100 => stored = 100
            /\ v \in 0..100 => stored = v

\* The slider was moved to its upper end before any lock.
ConfidenceClampedWitness ==
  /\ ~isLocked
  /\ timeRemaining < InitialTime
  /\ userConfidence = SliderMax
  /\ \E v \in ConfidenceInputs : v > SliderMax /\ rangeValue(v) = userConfidence

\* C14: once isLocked is true, no step other than resetDemo (no tick, late
\* callback, direction or confidence change, outcome toggle, mode toggle or
\* submit) sets it back to false.
LockOneWay ==
  [][(isLocked /\ ~isLocked') => Reset]_vars

\* Still locked after outcome toggle, mode switch, submit and confirmation.
LockOneWayWitness ==
  /\ isLocked
  /\ outcome = "DOWN"
  /\ ~demoMode
  /\ txStatus = "confirmed"
  /\ pendingReveal = 0

\* C15: a scheduled reveal is never cancelled: resetDemo leaves it scheduled,
\* the only way it goes away is by firing, which sets showOutcome = true, and
\* it does fire, also on a session that was reset meanwhile; once the outcome
\* shows and a direction is chosen the feedback is non-null, locked or not.
StaleRevealNotCancelled ==
  /\ [][/\ (isLocked /\ ~isLocked') => pendingReveal' = pendingReveal
        /\ pendingReveal' < pendingReveal =>
             (pendingReveal' = pendingReveal - 1 /\ showOutcome')]_vars
  /\ []((showOutcome /\ userDirection # NULL) => feedback # NoFeedback)
  /\ (pendingReveal > 0) ~> showOutcome

\* The reset session shows the outcome and gives feedback before any lock.
StaleRevealWitness ==
  /\ ~isLocked
  /\ showOutcome
  /\ timeRemaining > 0
  /\ userDirection = "UP"
  /\ feedback = coachResponses["agree_correct"]

\* C16: whenever isLocked and showOutcome both hold (effects settled), the
\* commitment is non-empty and was computed from the current actor identifier
\* ('0xDemoUser' in demo mode, else the wallet address or '0x0'), the fixed
\* analysis direction and confidence, and the current userDirection,
\* userConfidence and outcome; toggling the outcome or the mode after reveal
\* replaces the stored commitment.
CommitmentFromCurrentInputs ==
  /\ []((isLocked /\ showOutcome) =>
          /\ commitmentHash # NoHash
          /\ Len(commitmentHash) = 7
          /\ commitmentHash[1] = (IF demoMode THEN "0xDemoUser"
                                  ELSE IF walletAddress # "" THEN walletAddress
                                       ELSE "0x0")
          /\ commitmentHash[2] = "UP"
          /\ commitmentHash[3] = 78
          /\ commitmentHash[4] = userDirection
          /\ commitmentHash[5] = userConfidence
          /\ commitmentHash[6] = outcome)
  /\ [][(/\ isLocked /\ showOutcome /\ isLocked' /\ showOutcome'
         /\ (outcome' # outcome \/ demoMode' # demoMode)) =>
          commitmentHash' # commitmentHash]_vars

\* Outcome toggled and mode switched after reveal, no wallet connected.
CommitmentRecomputedWitness ==
  /\ isLocked
  /\ showOutcome
  /\ outcome = "DOWN"
  /\ ~demoMode
  /\ ~walletConnected
  /\ commitmentHash # NoHash
  /\ commitmentHash[1] = "0x0"
  /\ commitmentHash[6] = "DOWN"

\* C17: in every step taken while demoMode is false the outcome is unchanged;
\* no step other than the outcome toggle (handleRandomizeOutcome) changes it;
\* two consecutive toggles restore the original outcome.
OutcomeOnlyByDemoToggle ==
  /\ [][/\ ~demoMode => outcome' = outcome
        /\ outcome' # outcome => ToggleOutcome]_vars
  /\ [](handleRandomizeOutcome(handleRandomizeOutcome(Cur)).outcome = outcome)

\* The outcome was toggled in demo mode and is kept in live mode.
OutcomeToggleWitness ==
  /\ outcome = "DOWN"
  /\ showOutcome
  /\ ~demoMode
  /\ walletConnected

\* C18: when the call of a live submission fails, txStatus goes back to idle,
\* txHash and all other state are unchanged, and submit is possible again
\* (idle, with a commitment and a wallet or demo mode, enables the button);
\* when the call succeeds txStatus becomes confirmed.
LiveFailureRevertsToIdle ==
  /\ [][pendingLiveTx' < pendingLiveTx =>
          /\ UNCHANGED <<demoMode, walletConnected, walletAddress, userDirection,
                         userConfidence, isLocked, timeRemaining, timerActive,
                         showTimeWarning, outcome, showOutcome, commitmentHash,
                         txHash, timer, pendingReveal, pendingDemoTx>>
          /\ \/ txStatus' = "idle" /\ FailLiveTx
             \/ txStatus' = "confirmed" /\ ConfirmLiveTx]_vars
  /\ []((txStatus = "idle" /\ commitmentHash # NoHash /\
         (demoMode \/ walletConnected)) => ~CommitDisabled(Cur))

\* A live submission is waiting on its call, which now fails or succeeds.
LiveFailureWitness ==
  /\ ~demoMode
  /\ walletConnected
  /\ isLocked
  /\ txStatus = "pending"
  /\ txHash = NoHash
  /\ pendingLiveTx > 0

\* C19: when encoding the inputs fails (a confidence that is no unsigned
\* integer), computeCommitment returns the all-zero digest of 64 digits
\* rather than raising: it never returns the empty string, and the effect
\* that stores its result sets commitmentHash to that digest and changes no
\* other state.
ZeroDigestOnEncodingFailure ==
  /\ [](\A timestamp \in Timestamps :
          /\ computeCommitment(Cur, timestamp) # NoHash
          /\ userConfidence < 0 =>
               /\ Len(computeCommitment(Cur, timestamp)) = 64
               /\ \A i \in 1..64 : computeCommitment(Cur, timestamp)[i] = 0)
  /\ [][/\ commitmentHash' # NoHash
        /\ userConfidence < 0 => commitmentHash' = [i \in 1..64 |-> 0]
        /\ UNCHANGED <<demoMode, walletConnected, walletAddress, userDirection,
                       userConfidence, isLocked, timeRemaining, timerActive,
                       showTimeWarning, outcome, showOutcome, txStatus, txHash,
                       timer, pendingReveal, pendingDemoTx, pendingLiveTx>>]_vars

\* The fallback digest stored for a negative confidence.
ZeroDigestWitness ==
  /\ userConfidence < 0
  /\ isLocked
  /\ showOutcome
  /\ commitmentHash = ZeroDigest

\* C20 as stated: in every reachable state txStatus = confirmed implies a
\* non-empty commitmentHash, also when resetDemo comes between a submit and
\* its delayed confirmation.
ConfirmedImpliesCommitment ==
  txStatus = "confirmed" => commitmentHash # NoHash

\* C20 amended: a pending submission always has a commitment, and a state
\* with txStatus = confirmed and an empty commitmentHash is entered only by
\* the continuation of a submit running on a session that resetDemo has put
\* back to idle meanwhile.
ConfirmedWithoutCommitmentOnlyStale ==
  /\ [](txStatus = "pending" => commitmentHash # NoHash)
  /\ [][(txStatus' = "confirmed" /\ commitmentHash' = NoHash) =>
          \/ (txStatus = "confirmed" /\ commitmentHash = NoHash)
          \/ /\ txStatus = "idle"
             /\ commitmentHash = NoHash
             /\ pendingDemoTx' + pendingLiveTx' < pendingDemoTx + pendingLiveTx
             /\ (ConfirmDemoTx \/ ConfirmLiveTx)]_vars

\* The demo confirmation of a session reset meanwhile: confirmed with a
\* transaction hash and no commitment.
StaleConfirmWitness ==
  /\ txStatus = "confirmed"
  /\ txHash # NoHash
  /\ commitmentHash = NoHash
  /\ ~showOutcome
  /\ pendingDemoTx = 0

\* C21: once a submission has started (txStatus pending or confirmed),
\* commitmentHash does not change until resetDemo: no outcome toggle, mode
\* toggle or wallet connect after the submit alters the stored commitment.
SubmittedCommitmentFrozen ==
  [][(txStatus # "idle" /\ commitmentHash' # commitmentHash) => Reset]_vars

\* C22: in every reachable state, isLocked implies that userDirection is UP
\* or DOWN and that timerActive is false.
LockedHasDirectionAndStoppedTimer ==
  isLocked => (userDirection \in {"UP", "DOWN"} /\ ~timerActive)

\* Locked by the countdown's expiry, against the analysis, outcome revealed.
LockedHasDirectionWitness ==
  /\ isLocked
  /\ userDirection = "DOWN"
  /\ ~timerActive
  /\ timeRemaining = 0
  /\ showOutcome

\* C23: showTimeWarning implies timerActive = false and timeRemaining = 0 in
\* every reachable state; and after the countdown has expired with no
\* direction chosen, choosing a direction does not lock: while the warning
\* shows and the decision is unlocked, a step that sets isLocked or schedules
\* a reveal is an explicit handleLockIn.
NoAutoLockAfterExpiry ==
  /\ [](showTimeWarning => (~timerActive /\ timeRemaining = 0))
  /\ [][(showTimeWarning /\ ~isLocked /\ userDirection' # userDirection) =>
          (~isLocked' /\ pendingReveal' = pendingReveal)]_vars
  /\ [][(showTimeWarning /\ ~isLocked /\
         (isLocked' \/ pendingReveal' > pendingReveal)) => LockIn]_vars

\* A direction chosen after the expiry warning, still unlocked, nothing
\* scheduled.
NoAutoLockWitness ==
  /\ showTimeWarning
  /\ userDirection # NULL
  /\ ~isLocked
  /\ pendingReveal = 0
  /\ ~showOutcome

\* C24: under fairness of the one-second tick every countdown terminates:
\* from every state with timerActive = true (the initial state and the state
\* right after resetDemo among them) eventually timerActive = false with
\* isLocked or showTimeWarning true; and timeRemaining is within 0..30 in
\* every reachable state.
CountdownTerminates ==
  /\ [](timeRemaining \in 0..30)
  /\ [][(isLocked /\ ~isLocked') =>
          (timeRemaining' = 30 /\ timerActive')]_vars
  /\ timerActive ~> (~timerActive /\ (isLocked \/ showTimeWarning))

\* A later session, started by resetDemo, has run out with no direction.
CountdownTerminatesWitness ==
  /\ outcome = "DOWN"
  /\ ~timerActive
  /\ showTimeWarning
  /\ timeRemaining = 0
  /\ userDirection = NULL

====
